---- MODULE Spec2Model ----
(***************************************************************************)
(* Model of src/main.py: the transcript retrieval pipeline                 *)
(* (fetch_transcript_with_retry), the /search endpoint over the cachetools *)
(* TTLCache (search_youtube), extract_video_id and the /convert endpoint   *)
(* (convert_to_mp3, download_video_sync, cleanup_file).                    *)
(***************************************************************************)
EXTENDS Integers, Sequences, FiniteSets, TLC

(***************************************************************************)
(* Bounds of the model.                                                    *)
(***************************************************************************)
\* max_retries is drawn from 0..MaxRetriesBound
MaxRetriesBound == 3
\* a transcript list holds at most MaxTracks tracks
MaxTracks == 2
\* TTLCache(maxsize=500), scaled down: the cache holds at most maxsize sessions
maxsize == 2
\* the provider returns at most MaxVideos videos for a search
MaxVideos == 2
\* at most MaxSearches new searches are started in a run
MaxSearches == 3
\* ThreadPoolExecutor(max_workers=16) of /convert, scaled down: the pool runs
\* at most ConvertWorkers downloads at a time
ConvertWorkers == 1
\* time advances MaxTicks times, by half the time to live each time
MaxTicks == 2
\* BATCH_SIZE = 200 scaled down: the search a walk goes through caches at most
\* MaxWalkVideos videos
MaxWalkVideos == 3

(***************************************************************************)
(* Program constants.                                                      *)
(***************************************************************************)
\* TTLCache(ttl=900)
ttl == 900
\* BATCH_SIZE = 200
BATCH_SIZE == 200
\* limit: int = 50
DefaultLimit == 50
\* if limit < 1: limit = 1
MinLimit == 1
\* elif limit > 100: limit = 100
MaxLimit == 100
\* DOWNLOAD_TIMEOUT = 300
DOWNLOAD_TIMEOUT == 300
TimeStep == ttl \div 2
MaxTime == MaxTicks * TimeStep

(***************************************************************************)
(* Transcript pipeline: values.                                            *)
(***************************************************************************)
Workers == {"w1", "w2"}
\* the worker whose call is followed step by step in SpecTranscript
SeqWorkers == {"w1"}

Langs == {"en", "es", "fr"}
Targets == {"en", "es"}

\* a caption track: language_code, is_generated, and whether the object is
\* the result of translate()
Tracks == [lang : Langs, gen : BOOLEAN, tr : {FALSE}]
NoTrack == [lang |-> "none", gen |-> FALSE, tr |-> FALSE]

RECURSIVE SeqsUpTo(_, _)
SeqsUpTo(S, n) ==
    IF n = 0 THEN {<<>>}
    ELSE LET shorter == SeqsUpTo(S, n - 1)
         IN  shorter \cup {Append(s, x) : s \in shorter, x \in S}

NoDup(s) == \A i, j \in 1..Len(s) : i # j => s[i] # s[j]

\* what ytt_api.list(video_id) can return: the tracks in iteration order; a
\* TranscriptList holds at most one manual and one generated track per language
TrackLists == {s \in SeqsUpTo(Tracks, MaxTracks) : NoDup(s)}

\* exceptions: kind is what str(e) says, at the attempt, op the raising call
NoError == [kind |-> "none", at |-> -1, op |-> "none"]
Err(kind, at, op) == [kind |-> kind, at |-> at, op |-> op]
\* what a provider call (list, fetch) can raise
ProviderErrKinds == {"transient", "not translatable"}

NoSegments == [lang |-> "none", gen |-> FALSE, tr |-> FALSE, at |-> -1]
NoResult == [status |-> "none", segments |-> NoSegments, language |-> "none",
             error |-> NoError]

browser_types == <<"chrome", "firefox", "opera">>
UAStrings == {"chrome", "firefox", "opera", "random"}

VARIABLES
    pc, target_language, max_retries, attempt, last_error, transcript_list,
    transcript_obj, actual_language, new_ua, result,
    ua_header, has_http_client,
    selected, listCalls, sleeps, failures, transFailed,
    now, time_reads, SEARCH_CACHE, pending, resp, op, uses, trail

svars == <<now, time_reads, SEARCH_CACHE, pending, resp, op, uses, trail>>

tvars == <<pc, target_language, max_retries, attempt, last_error,
           transcript_list, transcript_obj, actual_language, new_ua, result,
           ua_header, has_http_client,
           selected, listCalls, sleeps, failures, transFailed>>

\* /convert and extract_video_id: the request's video_url and the id extracted
\* from it; per conversion, the handler's position and response, the state of
\* the download job in the pool, the files it has under downloads/, the
\* cleanup task and the seconds waited for the download
VARIABLES video_url, video_id, cpc, cresp, job, files, cleanup, waited

cvars == <<video_url, video_id, cpc, cresp, job, files, cleanup, waited>>

(***************************************************************************)
(* TranscriptList.find_manually_created_transcript / find_generated_       *)
(* transcript: the track of that kind in the language, NoTrack for the     *)
(* NoTranscriptFound exception the bare except swallows.                   *)
(***************************************************************************)
FindTranscript(tl, lang, gen) ==
    IF \E i \in 1..Len(tl) : tl[i].lang = lang /\ tl[i].gen = gen
    THEN tl[CHOOSE i \in 1..Len(tl) : tl[i].lang = lang /\ tl[i].gen = gen]
    ELSE NoTrack

\* lines 110-113: for t in transcript_list: transcript_obj = t; break
FirstTrack(tl) == IF Len(tl) > 0 THEN tl[1] ELSE NoTrack

\* lines 89-98: the target language, manual before generated
FindInTarget(tl, target) ==
    LET m == FindTranscript(tl, target, FALSE)
    IN  IF m # NoTrack THEN m ELSE FindTranscript(tl, target, TRUE)

\* a slip in the order of the English fallbacks
FindFallback_GeneratedFirst(tl) ==
    LET g == FindTranscript(tl, "en", TRUE)
    IN  IF g # NoTrack THEN g
        ELSE LET m == FindTranscript(tl, "en", FALSE)
             IN  IF m # NoTrack THEN m ELSE FirstTrack(tl)

\* lines 101-113: English manual, English generated, then any track
FindFallback(tl) ==
    LET m == FindTranscript(tl, "en", FALSE)
    IN  IF m # NoTrack THEN m
        ELSE LET g == FindTranscript(tl, "en", TRUE)
             IN  IF g # NoTrack THEN g ELSE FirstTrack(tl)

\* lines 85-113: the track an attempt selects
SelectTrack(tl, target) ==
    LET direct == FindInTarget(tl, target)
    IN  IF direct # NoTrack THEN direct ELSE FindFallback(tl)

\* Transcript.translate(target_language): a track object in the target language
Translated(t, target) == [lang |-> target, gen |-> t.gen, tr |-> TRUE]

\* the reported language keeps the requested one
DegradedLanguage_Target(t, target) == target

\* line 124: actual_language = transcript_obj.language_code
DegradedLanguage(t, target) == t.lang

\* transcript_obj.fetch() + snippet_to_dict: the segments of the fetched object
Segments(t, at) == [lang |-> t.lang, gen |-> t.gen, tr |-> t.tr, at |-> at]

\* the loop runs one time too many
InRange_OffByOne(i, n) == i <= n

\* line 65: for attempt in range(max_retries)
InRange(i, n) == 0 <= i /\ i < n

\* the pause before the last attempt is left out
ShouldSleep_OffByOne(a, n) == a < n - 2

\* line 145: if attempt < max_retries - 1
ShouldSleep(a, n) == a < n - 1

\* line 141: "not translatable" in str(e).lower()
IsTranslationIssue(e) == e.kind = "not translatable"

(***************************************************************************)
(* /search: values.                                                        *)
(***************************************************************************)
Reqs == {"r1", "r2"}
\* the request slot followed in SpecSearch
SeqReqs == {"r1"}

Queries == {"qa", "qb"}
\* a query or cursor parameter that is not given, or given empty
NoneStr == "<None>"
Truthy(x) == x # NoneStr /\ x # ""

\* a search id: the digest of "query:time"
SearchIds == Queries \X (0..(MaxSearches - 1))
NoSid == <<NoneStr, -1>>

\* a cursor string, split at ":": the text before the first colon and the
\* fields after it, each either an integer literal or other text
IntField(n) == [int |-> TRUE, v |-> n]
JunkField == [int |-> FALSE, v |-> 0]
NoCursor == [given |-> FALSE, sid |-> NoSid, fields |-> <<>>]
CursorOf(sid, fields) == [given |-> TRUE, sid |-> sid, fields |-> fields]

\* what the provider returns for a search: the videos in order
Batches == {[i \in 1..n |-> i] : n \in 0..MaxVideos}

\* the requests a client sends
LimitInputs == {-1, 0, 2, 101}
OffsetInputs == {-1, 0, 1, MaxVideos}
\* "id:offset", "id", "id:x" and "id:1:x"
CursorInputs(Q) ==
    {CursorOf(sid, <<IntField(o)>>) : sid \in Q \X (0..(MaxSearches - 1)),
                                      o \in OffsetInputs}
    \cup {CursorOf(<<q, 0>>, <<>>) : q \in Q}
    \cup {CursorOf(<<q, 0>>, <<JunkField>>) : q \in Q}
    \cup {CursorOf(<<q, 0>>, <<IntField(1), JunkField>>) : q \in Q}
\* the first page of every session
FirstPageCursors == {CursorOf(sid, <<IntField(0)>>) : sid \in SearchIds}

NoValue == [query |-> NoneStr, videos |-> <<>>]
\* the locals of a request suspended at the await (limit after the clamp), with
\* the limit it was sent with
NoPending == [busy |-> FALSE, query |-> NoneStr, search_id |-> NoSid,
              limit |-> 0, calls |-> <<>>, requested |-> 0]
NoResp == [kind |-> "none", detail |-> "", query |-> NoneStr, count |-> 0,
           offset |-> 0, limit |-> 0, next_cursor |-> NoCursor,
           prev_cursor |-> NoCursor, videos |-> <<>>]
\* no walk through a session under way. A walk: whether it began at the
\* response to a new search, its effective limit, the batch of its session
\* and the pages served so far
NoTrail == [fresh |-> FALSE, limit |-> 0, batch |-> <<>>, pages |-> <<>>]
\* the last step: the request handled, the provider calls made for it and the
\* sessions the step removed from the cache
NoOp == [kind |-> "none", cursor |-> NoCursor, sid |-> NoSid, called |-> <<>>,
         dropped |-> {}, limit |-> 0]

Min(a, b) == IF a < b THEN a ELSE b
Max(a, b) == IF a > b THEN a ELSE b

(***************************************************************************)
(* cachetools.TTLCache as SEARCH_CACHE uses it: the entries in order of    *)
(* use, least recently used first, each with the time it expires at.       *)
(* Expired entries stay stored until the next insertion removes them.      *)
(***************************************************************************)
KeysOf(c) == {c[i].key : i \in 1..Len(c)}
IndexOf(c, k) == CHOOSE i \in 1..Len(c) : c[i].key = k

\* TTLCache.__contains__: stored and not expired
Live(c, k, t) == \E i \in 1..Len(c) : c[i].key = k /\ t < c[i].expires

\* TTLCache.expire(time)
Expire(c, t) ==
    LET fresh(e) == t < e.expires
    IN  SelectSeq(c, fresh)

Remove(c, i) == SubSeq(c, 1, i - 1) \o SubSeq(c, i + 1, Len(c))
MoveToEnd(c, i) == Append(Remove(c, i), c[i])

\* a read renews the session's time to live
CacheGet_Sliding(c, k, t) ==
    IF Live(c, k, t)
    THEN LET i == IndexOf(c, k)
         IN  [hit |-> TRUE, value |-> c[i].value,
              cache |-> Append(Remove(c, i), [c[i] EXCEPT !.expires = t + ttl])]
    ELSE [hit |-> FALSE, value |-> NoValue, cache |-> c]

\* an expired session is still returned
CacheGet_NoExpiry(c, k, t) ==
    IF k \in KeysOf(c)
    THEN LET i == IndexOf(c, k)
         IN  [hit |-> TRUE, value |-> c[i].value, cache |-> MoveToEnd(c, i)]
    ELSE [hit |-> FALSE, value |-> NoValue, cache |-> c]

\* a read hands out the batch and leaves the cached one without its first video
CacheGet_Truncating(c, k, t) ==
    IF Live(c, k, t)
    THEN LET i == IndexOf(c, k)
         IN  [hit |-> TRUE, value |-> c[i].value,
              cache |-> Append(Remove(c, i),
                               [c[i] EXCEPT !.value.videos =
                                   SubSeq(@, 2, Len(@))])]
    ELSE [hit |-> FALSE, value |-> NoValue, cache |-> c]

\* line 293: SEARCH_CACHE.get(search_id): the value and the cache after the read
CacheGet(c, k, t) ==
    IF Live(c, k, t)
    THEN LET i == IndexOf(c, k)
         IN  [hit |-> TRUE, value |-> c[i].value, cache |-> MoveToEnd(c, i)]
    ELSE [hit |-> FALSE, value |-> NoValue, cache |-> c]

\* Cache.__setitem__: popitem() while the new entry does not fit
RECURSIVE PopWhileFull(_)
PopWhileFull(c) == IF Len(c) + 1 > maxsize THEN PopWhileFull(Tail(c)) ELSE c

\* the most recently used session is evicted
CacheSetItem_EvictNewest(c, k, v, t) ==
    LET c1 == Expire(c, t)
        c2 == IF k \in KeysOf(c1) THEN Remove(c1, IndexOf(c1, k))
              ELSE IF Len(c1) + 1 > maxsize THEN SubSeq(c1, 1, Len(c1) - 1)
              ELSE c1
    IN  Append(c2, [key |-> k, value |-> v, expires |-> t + ttl])

\* the cache is written back from the new entry alone
CacheSetItem_Overwrite(c, k, v, t) ==
    <<[key |-> k, value |-> v, expires |-> t + ttl]>>

\* lines 321-324: SEARCH_CACHE[search_id] = {...}
CacheSetItem(c, k, v, t) ==
    LET c1 == Expire(c, t)
        c2 == IF k \in KeysOf(c1) THEN Remove(c1, IndexOf(c1, k))
              ELSE PopWhileFull(c1)
    IN  Append(c2, [key |-> k, value |-> v, expires |-> t + ttl])

(***************************************************************************)
(* /search: the pure parts of search_youtube.                              *)
(***************************************************************************)
\* only the upper end is enforced
ClampLimit_UpperOnly(limit) == IF limit > MaxLimit THEN MaxLimit ELSE limit

\* lines 279-283
ClampLimit(limit) ==
    IF limit < MinLimit THEN MinLimit
    ELSE IF limit > MaxLimit THEN MaxLimit
    ELSE limit

\* lines 210-212: the digest of the query and the clock reading t; the
\* readings of successive calls are taken to differ and the digest to be
\* one-to-one on the ids in play
generate_search_id(query, t) == <<query, t>>

\* lines 215-221: split(":"), parts[0], int(parts[1])
parse_cursor(cursor) ==
    IF Len(cursor.fields) = 0 \/ ~cursor.fields[1].int
    THEN [ok |-> FALSE, search_id |-> NoSid, offset |-> 0]
    ELSE [ok |-> TRUE, search_id |-> cursor.sid, offset |-> cursor.fields[1].v]

\* f"{search_id}:{offset}"
FormatCursor(search_id, offset) == CursorOf(search_id, <<IntField(offset)>>)

\* the slice includes the element at the upper index
PySlice_Inclusive(s, a, b) ==
    LET n == Len(s)
        lo == IF a < 0 THEN Max(n + a, 0) ELSE Min(a, n)
        hi == IF b + 1 < 0 THEN Max(n + b + 1, 0) ELSE Min(b + 1, n)
    IN  IF lo < hi THEN SubSeq(s, lo + 1, hi) ELSE <<>>

\* s[a:b] of a Python list
PySlice(s, a, b) ==
    LET n == Len(s)
        lo == IF a < 0 THEN Max(n + a, 0) ELSE Min(a, n)
        hi == IF b < 0 THEN Max(n + b, 0) ELSE Min(b, n)
    IN  IF lo < hi THEN SubSeq(s, lo + 1, hi) ELSE <<>>

\* a next cursor handed out also when the page ends exactly at the end of the
\* batch
NextCursor_Inclusive(search_id, offset, limit, all_videos) ==
    IF offset + limit <= Len(all_videos)
    THEN FormatCursor(search_id, offset + limit)
    ELSE NoCursor

\* lines 337-338
NextCursor(search_id, offset, limit, all_videos) ==
    IF offset + limit < Len(all_videos)
    THEN FormatCursor(search_id, offset + limit)
    ELSE NoCursor

\* a previous cursor one video back instead of one page back
PrevCursor_OneBack(search_id, offset, limit) ==
    IF offset > 0
    THEN FormatCursor(search_id, offset - 1)
    ELSE NoCursor

\* lines 340-343
PrevCursor(search_id, offset, limit) ==
    IF offset > 0
    THEN FormatCursor(search_id, Max(0, offset - limit))
    ELSE NoCursor

\* lines 333-353: the page returned
Page(query, search_id, offset, limit, all_videos) ==
    LET videos == PySlice(all_videos, offset, offset + limit)
    IN  [kind |-> "page", detail |-> "", query |-> query,
         count |-> Len(videos), offset |-> offset, limit |-> limit,
         next_cursor |-> NextCursor(search_id, offset, limit, all_videos),
         prev_cursor |-> PrevCursor(search_id, offset, limit),
         videos |-> videos]

\* the provider call is submitted a second time
SubmitSearch_Twice(query) ==
    <<[query |-> query, limit |-> BATCH_SIZE], [query |-> query, limit |-> BATCH_SIZE]>>

\* lines 312-318: run_in_executor(search_executor, search_youtube_ytdlp, query,
\* BATCH_SIZE): the provider calls made
SubmitSearch(query) == <<[query |-> query, limit |-> BATCH_SIZE]>>

\* raise HTTPException(status_code=200, detail=...)
HTTPException(detail) == [NoResp EXCEPT !.kind = "error", !.detail = detail]

CursorExpired == "Cursor expired or invalid. Please start a new search."
InvalidCursor == "Search failed: Invalid cursor format"
SearchFailed == "Search failed"
QueryOrCursorRequired == "Either 'query' or 'cursor' parameter is required"

(***************************************************************************)
(* Transcript pipeline: fetch_transcript_with_retry, one step per provider *)
(* call of the thread running it.                                          *)
(***************************************************************************)
TInit ==
    /\ pc = [w \in Workers |-> "idle"]
    /\ target_language = [w \in Workers |-> "en"]
    /\ max_retries = [w \in Workers |-> 0]
    /\ attempt = [w \in Workers |-> 0]
    /\ last_error = [w \in Workers |-> NoError]
    /\ transcript_list = [w \in Workers |-> <<>>]
    /\ transcript_obj = [w \in Workers |-> NoTrack]
    /\ actual_language = [w \in Workers |-> "none"]
    /\ new_ua = [w \in Workers |-> "none"]
    /\ result = [w \in Workers |-> NoResult]
    /\ ua_header = "default"
    /\ has_http_client \in BOOLEAN
    /\ selected = [w \in Workers |-> NoTrack]
    /\ listCalls = [w \in Workers |-> 0]
    /\ sleeps = [w \in Workers |-> 0]
    /\ failures = [w \in Workers |-> <<>>]
    /\ transFailed = [w \in Workers |-> {}]

\* line 148: raise last_error (raise None is a TypeError)
RaiseLast(le) ==
    [NoResult EXCEPT !.status = "error",
                     !.error = IF le = NoError THEN Err("TypeError", -1, "raise")
                               ELSE le]

\* lines 65, 148: the next iteration of the for loop, or the raise after it
LoopAdvance(w, le) ==
    IF InRange(attempt[w] + 1, max_retries[w])
    THEN /\ attempt' = [attempt EXCEPT ![w] = @ + 1]
         /\ pc' = [pc EXCEPT ![w] = "set_ua"]
         /\ UNCHANGED result
    ELSE /\ pc' = [pc EXCEPT ![w] = "done"]
         /\ result' = [result EXCEPT ![w] = RaiseLast(le)]
         /\ UNCHANGED attempt

\* lines 139-146: except Exception as e
Raise(w, e) ==
    /\ failures' = [failures EXCEPT ![w] = Append(@, e)]
    /\ IF IsTranslationIssue(e)
       THEN /\ pc' = [pc EXCEPT ![w] = "done"]
            /\ result' = [result EXCEPT ![w] =
                             [NoResult EXCEPT !.status = "error", !.error = e]]
            /\ UNCHANGED <<last_error, attempt>>
       ELSE /\ last_error' = [last_error EXCEPT ![w] = e]
            /\ IF ShouldSleep(attempt[w], max_retries[w])
               THEN /\ pc' = [pc EXCEPT ![w] = "sleep"]
                    /\ UNCHANGED <<attempt, result>>
               ELSE LoopAdvance(w, e)

\* lines 59-65: the call, up to the first iteration of the loop
Call(w) ==
    /\ UNCHANGED <<svars, cvars>>
    /\ pc[w] = "idle"
    /\ \E tl \in Targets, mr \in 0..MaxRetriesBound :
        /\ target_language' = [target_language EXCEPT ![w] = tl]
        /\ max_retries' = [max_retries EXCEPT ![w] = mr]
        /\ attempt' = [attempt EXCEPT ![w] = 0]
        /\ last_error' = [last_error EXCEPT ![w] = NoError]
        /\ IF InRange(0, mr)
           THEN /\ pc' = [pc EXCEPT ![w] = "set_ua"]
                /\ UNCHANGED result
           ELSE /\ pc' = [pc EXCEPT ![w] = "done"]
                /\ result' = [result EXCEPT ![w] = RaiseLast(NoError)]
    /\ UNCHANGED <<transcript_list, transcript_obj, actual_language, new_ua,
                   ua_header, has_http_client, selected, listCalls, sleeps,
                   failures, transFailed>>

\* lines 67-80: the rotating User-Agent, written to the shared client's headers
SetUserAgent(w) ==
    /\ UNCHANGED <<svars, cvars>>
    /\ pc[w] = "set_ua"
    /\ \E u \in {browser_types[(attempt[w] % 3) + 1], "random"} :
        /\ new_ua' = [new_ua EXCEPT ![w] = u]
        /\ ua_header' = IF has_http_client THEN u ELSE ua_header
    /\ pc' = [pc EXCEPT ![w] = "list"]
    /\ UNCHANGED <<target_language, max_retries, attempt, last_error,
                   transcript_list, transcript_obj, actual_language, result,
                   has_http_client, selected, listCalls, sleeps, failures,
                   transFailed>>

\* lines 82-127: ytt_api.list(video_id) and the selection cascade
ListTracks(w) ==
    /\ UNCHANGED <<svars, cvars>>
    /\ pc[w] = "list"
    /\ listCalls' = [listCalls EXCEPT ![w] = @ + 1]
    /\ \/ /\ \E k \in ProviderErrKinds : Raise(w, Err(k, attempt[w], "list"))
          /\ UNCHANGED <<transcript_list, transcript_obj, actual_language,
                         selected>>
       \/ \E tl \in TrackLists :
            LET direct == FindInTarget(tl, target_language[w])
                sel == SelectTrack(tl, target_language[w])
            IN  /\ transcript_list' = [transcript_list EXCEPT ![w] = tl]
                /\ selected' = [selected EXCEPT ![w] = sel]
                /\ transcript_obj' = [transcript_obj EXCEPT ![w] = sel]
                /\ actual_language' =
                       [actual_language EXCEPT ![w] = target_language[w]]
                /\ IF sel = NoTrack
                   THEN Raise(w, Err("No transcript found", attempt[w], "select"))
                   ELSE /\ pc' = [pc EXCEPT ![w] =
                                  IF direct = NoTrack
                                     /\ target_language[w] # sel.lang
                                  THEN "translate" ELSE "fetch"]
                        /\ UNCHANGED <<attempt, last_error, result, failures>>
    /\ UNCHANGED <<target_language, max_retries, new_ua, ua_header,
                   has_http_client, sleeps, transFailed>>

\* the failure of translate() reaches the retry handler
TranslateFailed_Propagates(w) ==
    /\ UNCHANGED actual_language
    /\ Raise(w, Err("transient", attempt[w], "translate"))

\* lines 120-124: except Exception as translate_error
TranslateFailed(w) ==
    /\ actual_language' = [actual_language EXCEPT ![w] =
           DegradedLanguage(transcript_obj[w], target_language[w])]
    /\ pc' = [pc EXCEPT ![w] = "fetch"]
    /\ UNCHANGED <<attempt, last_error, result, failures>>

\* lines 115-124: transcript_obj.translate(target_language)
Translate(w) ==
    /\ UNCHANGED <<svars, cvars>>
    /\ pc[w] = "translate"
    /\ \/ /\ transcript_obj' = [transcript_obj EXCEPT ![w] =
                                   Translated(@, target_language[w])]
          /\ pc' = [pc EXCEPT ![w] = "fetch"]
          /\ UNCHANGED <<actual_language, attempt, last_error, result,
                         failures, transFailed>>
       \/ /\ transFailed' = [transFailed EXCEPT ![w] = @ \cup {attempt[w]}]
          /\ TranslateFailed(w)
          /\ UNCHANGED transcript_obj
    /\ UNCHANGED <<target_language, max_retries, transcript_list, new_ua,
                   ua_header, has_http_client, selected, listCalls, sleeps>>

\* lines 129-137: transcript_obj.fetch() and the return
Fetch(w) ==
    /\ UNCHANGED <<svars, cvars>>
    /\ pc[w] = "fetch"
    /\ \/ /\ result' = [result EXCEPT ![w] =
                 [NoResult EXCEPT !.status = "ok",
                                  !.segments = Segments(transcript_obj[w], attempt[w]),
                                  !.language = actual_language[w]]]
          /\ pc' = [pc EXCEPT ![w] = "done"]
          /\ UNCHANGED <<attempt, last_error, failures>>
       \/ \E k \in ProviderErrKinds : Raise(w, Err(k, attempt[w], "fetch"))
    /\ UNCHANGED <<target_language, max_retries, transcript_list,
                   transcript_obj, actual_language, new_ua, ua_header,
                   has_http_client, selected, listCalls, sleeps, transFailed>>

\* line 146: time.sleep(1), then the next iteration
Sleep(w) ==
    /\ UNCHANGED <<svars, cvars>>
    /\ pc[w] = "sleep"
    /\ sleeps' = [sleeps EXCEPT ![w] = @ + 1]
    /\ LoopAdvance(w, last_error[w])
    /\ UNCHANGED <<target_language, max_retries, last_error, transcript_list,
                   transcript_obj, actual_language, new_ua, ua_header,
                   has_http_client, selected, listCalls, failures, transFailed>>

\* the caller takes the result (lines 167-175); the thread is free again
Return(w) ==
    /\ UNCHANGED <<svars, cvars>>
    /\ pc[w] = "done"
    /\ pc' = [pc EXCEPT ![w] = "idle"]
    /\ result' = [result EXCEPT ![w] = NoResult]
    /\ transcript_list' = [transcript_list EXCEPT ![w] = <<>>]
    /\ transcript_obj' = [transcript_obj EXCEPT ![w] = NoTrack]
    /\ selected' = [selected EXCEPT ![w] = NoTrack]
    /\ actual_language' = [actual_language EXCEPT ![w] = "none"]
    /\ new_ua' = [new_ua EXCEPT ![w] = "none"]
    /\ last_error' = [last_error EXCEPT ![w] = NoError]
    /\ attempt' = [attempt EXCEPT ![w] = 0]
    /\ max_retries' = [max_retries EXCEPT ![w] = 0]
    /\ target_language' = [target_language EXCEPT ![w] = "en"]
    /\ listCalls' = [listCalls EXCEPT ![w] = 0]
    /\ sleeps' = [sleeps EXCEPT ![w] = 0]
    /\ failures' = [failures EXCEPT ![w] = <<>>]
    /\ transFailed' = [transFailed EXCEPT ![w] = {}]
    /\ UNCHANGED <<ua_header, has_http_client>>

TNext ==
    \E w \in SeqWorkers :
        \/ Call(w)
        \/ SetUserAgent(w)
        \/ ListTracks(w)
        \/ Translate(w)
        \/ Fetch(w)
        \/ Sleep(w)
        \/ Return(w)


\* lines 19-20, 164-172: the calls of several requests run on the threads of
\* transcript_executor at once and share ytt_api; the requests are for "en",
\* with up to two attempts, on videos with at most one track
TConcNext ==
    \E w \in Workers :
        \/ Call(w) /\ target_language'[w] = "en" /\ max_retries'[w] <= 2
        \/ SetUserAgent(w)
        \/ ListTracks(w) /\ Len(transcript_list'[w]) <= 1
        \/ Translate(w)
        \/ Fetch(w)
        \/ Sleep(w)
        \/ Return(w)

(***************************************************************************)
(* /search: search_youtube on the event loop. A new search is two steps,   *)
(* before and after the await of the provider call; everything else runs   *)
(* in one step.                                                            *)
(***************************************************************************)
SInit ==
    /\ now = 0
    /\ time_reads = 0
    /\ SEARCH_CACHE = <<>>
    /\ pending = [r \in Reqs |-> NoPending]
    /\ resp = NoResp
    /\ op = NoOp
    /\ uses = <<>>
    /\ trail = NoTrail

\* the sessions stored, in order of last use (insertion or served read), each
\* with the time it was inserted at: kept by the handlers, beside the cache
Touch(u, sid, created) ==
    LET other(x) == x.sid # sid
    IN  Append(SelectSeq(u, other), [sid |-> sid, created |-> created])
Prune(u, c) ==
    LET stored(x) == x.sid \in KeysOf(c)
    IN  SelectSeq(u, stored)
CreatedAt(u, sid) == (CHOOSE x \in {u[i] : i \in 1..Len(u)} : x.sid = sid).created

\* lines 278-304, 333-353: a request with a cursor
CursorRequest(cursor, limit) ==
    /\ cursor.given
    /\ LET p == parse_cursor(cursor)
           g == CacheGet(SEARCH_CACHE, p.search_id, now)
       IN  IF ~p.ok
           THEN /\ resp' = HTTPException(InvalidCursor)
                /\ UNCHANGED <<SEARCH_CACHE, uses>>
           ELSE /\ SEARCH_CACHE' = g.cache
                /\ IF ~g.hit
                   THEN /\ resp' = HTTPException(CursorExpired)
                        /\ UNCHANGED uses
                   ELSE /\ resp' = Page(g.value.query, p.search_id, p.offset,
                                        ClampLimit(limit), g.value.videos)
                        /\ uses' = Touch(uses, p.search_id,
                                         CreatedAt(uses, p.search_id))
    /\ op' = [NoOp EXCEPT !.kind = "cursor", !.cursor = cursor,
                          !.sid = parse_cursor(cursor).search_id,
                          !.limit = limit]
    /\ UNCHANGED <<now, time_reads, pending>>
    /\ UNCHANGED <<tvars, cvars>>

\* lines 278-318: a request with a query and no cursor, up to the await; the
\* provider call is handed to search_executor
SearchStart(r, query, limit) ==
    /\ ~pending[r].busy
    /\ Truthy(query)
    /\ time_reads < MaxSearches
    /\ LET search_id == generate_search_id(query, time_reads)
       IN  /\ pending' = [pending EXCEPT ![r] =
                  [busy |-> TRUE, query |-> query, search_id |-> search_id,
                   limit |-> ClampLimit(limit), calls |-> SubmitSearch(query),
                   requested |-> limit]]
           /\ op' = [NoOp EXCEPT !.kind = "search_start", !.sid = search_id,
                                 !.called = SubmitSearch(query),
                                 !.limit = limit]
    /\ time_reads' = time_reads + 1
    /\ resp' = NoResp
    /\ UNCHANGED <<now, SEARCH_CACHE, uses>>
    /\ UNCHANGED <<tvars, cvars>>

\* lines 313-353: the provider call returned all_videos
SearchComplete(r, all_videos) ==
    /\ pending[r].busy
    /\ LET search_id == pending[r].search_id
           query == pending[r].query
           cache == CacheSetItem(SEARCH_CACHE, search_id,
                                 [query |-> query, videos |-> all_videos], now)
       IN  /\ SEARCH_CACHE' = cache
           /\ resp' = Page(query, search_id, 0, pending[r].limit, all_videos)
           /\ uses' = Prune(Touch(uses, search_id, now), cache)
           /\ op' = [NoOp EXCEPT !.kind = "search_done", !.sid = search_id,
                                 !.called = pending[r].calls,
                                 !.dropped = KeysOf(SEARCH_CACHE) \ KeysOf(cache),
                                 !.limit = pending[r].requested]
    /\ pending' = [pending EXCEPT ![r] = NoPending]
    /\ UNCHANGED <<now, time_reads>>
    /\ UNCHANGED <<tvars, cvars>>

\* lines 313-318, 357-359: the provider call raised
SearchFail(r) ==
    /\ pending[r].busy
    /\ resp' = HTTPException(SearchFailed)
    /\ op' = [NoOp EXCEPT !.kind = "search_failed",
                          !.sid = pending[r].search_id,
                          !.called = pending[r].calls,
                          !.limit = pending[r].requested]
    /\ pending' = [pending EXCEPT ![r] = NoPending]
    /\ UNCHANGED <<now, time_reads, SEARCH_CACHE, uses>>
    /\ UNCHANGED <<tvars, cvars>>

\* the HTTPException of lines 328-331 is caught by the except Exception of
\* lines 357-359
BadRequest_Wrapped(query) ==
    /\ ~Truthy(query)
    /\ resp' = HTTPException(SearchFailed)
    /\ op' = [NoOp EXCEPT !.kind = "bad_request"]
    /\ UNCHANGED <<now, time_reads, SEARCH_CACHE, pending, uses>>
    /\ UNCHANGED <<tvars, cvars>>

\* lines 327-331: neither a cursor nor a query
BadRequest(query) ==
    /\ ~Truthy(query)
    /\ resp' = HTTPException(QueryOrCursorRequired)
    /\ op' = [NoOp EXCEPT !.kind = "bad_request"]
    /\ UNCHANGED <<now, time_reads, SEARCH_CACHE, pending, uses>>
    /\ UNCHANGED <<tvars, cvars>>

\* time passes (the timer of the TTLCache)
Tick ==
    /\ now + TimeStep <= MaxTime
    /\ now' = now + TimeStep
    /\ resp' = NoResp
    /\ op' = NoOp
    /\ UNCHANGED <<time_reads, SEARCH_CACHE, pending, uses>>
    /\ UNCHANGED <<tvars, cvars>>

(***************************************************************************)
(* A client's walk through one session, kept beside the handlers: the      *)
(* pages it was served, each after the first by sending the next_cursor of *)
(* the page before with the same effective limit.                          *)
(***************************************************************************)
\* the pages a walk is begun at by cursor: every offset up to the last video
\* but 0, where the walks from a new search begin
WalkCursors ==
    {CursorOf(<<"qa", t>>, <<IntField(o)>>) :
        t \in 0..(MaxSearches - 1), o \in ((-1)..(MaxWalkVideos - 1)) \ {0}}
WalkBatches == {[i \in 1..n |-> i] : n \in 0..MaxWalkVideos}
WalkLimits == {0, 2, 101}

LastPage(tr) == tr.pages[Len(tr.pages)]
Follows(tr, cursor, limit) ==
    /\ tr.pages # <<>>
    /\ cursor.given
    /\ cursor = LastPage(tr).next_cursor
    /\ ClampLimit(limit) = tr.limit
GoesBack(tr, cursor, limit) ==
    /\ tr.pages # <<>>
    /\ cursor.given
    /\ cursor = LastPage(tr).prev_cursor
    /\ ClampLimit(limit) = tr.limit
\* a request of the walk that is not served a page ends it
Walk(tr, cursor, limit, response) ==
    IF ~Follows(tr, cursor, limit) THEN tr
    ELSE IF response.kind = "page"
         THEN [tr EXCEPT !.pages = Append(@, response)]
         ELSE NoTrail

\* the client's new search is answered: the walk begins at its first page
WalkStart(r, all_videos) ==
    /\ SearchComplete(r, all_videos)
    /\ trail' = [fresh |-> TRUE, limit |-> pending[r].limit,
                 batch |-> all_videos, pages |-> <<resp'>>]

\* the client begins a walk at a page asked for by cursor
WalkFrom(cursor, limit) ==
    /\ CursorRequest(cursor, limit)
    /\ resp'.kind = "page"
    /\ trail' = [fresh |-> FALSE, limit |-> ClampLimit(limit),
                 batch |-> CacheGet(SEARCH_CACHE,
                                    parse_cursor(cursor).search_id,
                                    now).value.videos,
                 pages |-> <<resp'>>]

\* the client sends the next_cursor of the page it holds
WalkNext(limit) ==
    /\ Follows(trail, LastPage(trail).next_cursor, limit)
    /\ CursorRequest(LastPage(trail).next_cursor, limit)
    /\ trail' = Walk(trail, LastPage(trail).next_cursor, limit, resp')

\* the client sends the prev_cursor of the page it holds, and stays there
WalkBack(limit) ==
    /\ GoesBack(trail, LastPage(trail).prev_cursor, limit)
    /\ CursorRequest(LastPage(trail).prev_cursor, limit)
    /\ UNCHANGED trail

\* requests of other clients, and the passing of time, during a walk
TraversalNext ==
    \/ \E r \in SeqReqs, l \in WalkLimits :
           SearchStart(r, "qa", l) /\ UNCHANGED trail
    \/ \E r \in SeqReqs, b \in WalkBatches : WalkStart(r, b)
    \/ \E c \in WalkCursors, l \in WalkLimits : WalkFrom(c, l)
    \/ \E l \in WalkLimits : WalkNext(l)
    \/ \E l \in WalkLimits : WalkBack(l)
    \/ Tick /\ UNCHANGED trail

\* one request at a time is suspended at the provider; every page of the
\* sessions of one query is asked for
PagingNext ==
    \/ \E c \in CursorInputs({"qa"}), l \in LimitInputs :
           CursorRequest(c, l) /\ UNCHANGED trail
    \/ \E r \in SeqReqs, l \in LimitInputs :
           SearchStart(r, "qa", l) /\ UNCHANGED trail
    \/ \E r \in SeqReqs, b \in Batches :
           SearchComplete(r, b) /\ UNCHANGED trail
    \/ \E r \in SeqReqs : SearchFail(r) /\ UNCHANGED trail
    \/ \E q \in {NoneStr, ""} : BadRequest(q) /\ UNCHANGED trail
    \/ Tick /\ UNCHANGED trail

\* several requests are suspended at the provider; the first page of every
\* session is asked for
SNext ==
    \/ \E c \in FirstPageCursors :
           CursorRequest(c, DefaultLimit) /\ UNCHANGED trail
    \/ \E r \in Reqs, q \in Queries :
           SearchStart(r, q, DefaultLimit) /\ UNCHANGED trail
    \/ \E r \in Reqs, b \in Batches :
           SearchComplete(r, b) /\ UNCHANGED trail
    \/ \E r \in Reqs : SearchFail(r) /\ UNCHANGED trail
    \/ \E q \in {NoneStr, ""} : BadRequest(q) /\ UNCHANGED trail
    \/ Tick /\ UNCHANGED trail

(***************************************************************************)
(* extract_video_id. A string is a sequence of characters; re.search finds  *)
(* the leftmost match of a pattern.                                        *)
(***************************************************************************)
\* [a-zA-Z0-9_-]{11}
IdLength == 11
\* the characters in play that [a-zA-Z0-9_-] accepts, and the others
IdChars == {"a", "b", "d", "e", "m", "o", "t", "u", "v", "y", "w", "Z", "0", "_", "-"}
OtherChars == {"=", "/", ".", "?", "&", "\n"}
\* (?:v=|/v/|youtu\.be/|/embed/), in the order of the alternation
Markers ==
    << <<"v", "=">>,
       <<"/", "v", "/">>,
       <<"y", "o", "u", "t", "u", ".", "b", "e", "/">>,
       <<"/", "e", "m", "b", "e", "d", "/">> >>

\* the parts the inputs are put together from
IdSample == <<"a", "-", "_", "Z", "0", "v", "e", "d", "y", "b", "t", "u">>
IdRuns == {SubSeq(IdSample, 1, n) : n \in (IdLength - 1)..(IdLength + 1)}
Prefixes == {<<>>, <<"w", "?">>, <<"v", "=", "a", "&">>}
MarkerInputs ==
    {Markers[k] : k \in 1..Len(Markers)}
    \cup {<<>>, <<"v">>, <<"e", "m", "b", "e", "d", "/">>}
Suffixes == {<<>>, <<"\n">>, <<"\n", "\n">>, <<"&", "t", "=", "0">>}
URLInputs ==
    {p \o m \o r \o x : p \in Prefixes, m \in MarkerInputs, r \in IdRuns,
                        x \in Suffixes}

NoId == [ok |-> FALSE, id |-> <<>>]
\* raise ValueError(...)
ValueError == [ok |-> FALSE, id |-> <<>>]

\* s has the characters of m from position i on
LiteralAt(s, i, m) ==
    /\ i + Len(m) - 1 <= Len(s)
    /\ SubSeq(s, i, i + Len(m) - 1) = m
\* ([a-zA-Z0-9_-]{11}) from position i on
IdAt(s, i) ==
    /\ i + IdLength - 1 <= Len(s)
    /\ \A j \in i..(i + IdLength - 1) : s[j] \in IdChars

\* line 40, re.search(r'(?:v=|/v/|youtu\.be/|/embed/)([a-zA-Z0-9_-]{11})', url):
\* group(1) of the leftmost match
SearchUrlPattern(url) ==
    LET hit(i, k) == LiteralAt(url, i, Markers[k])
                        /\ IdAt(url, i + Len(Markers[k]))
        at == {i \in 1..Len(url) : \E k \in 1..Len(Markers) : hit(i, k)}
    IN  IF at = {} THEN NoId
        ELSE LET i == CHOOSE x \in at : \A y \in at : x <= y
                 k == CHOOSE x \in 1..Len(Markers) :
                        hit(i, x) /\ \A y \in 1..(x - 1) : ~hit(i, y)
                 from == i + Len(Markers[k])
             IN  [ok |-> TRUE, id |-> SubSeq(url, from, from + IdLength - 1)]

\* line 41, re.search(r'^([a-zA-Z0-9_-]{11})$', url): $ matches at the end of
\* the string and before a newline that ends the string
SearchBarePattern(url) ==
    IF /\ IdAt(url, 1)
       /\ \/ Len(url) = IdLength
          \/ Len(url) = IdLength + 1 /\ url[IdLength + 1] = "\n"
    THEN [ok |-> TRUE, id |-> SubSeq(url, 1, IdLength)]
    ELSE NoId

\* lines 37-47
extract_video_id(url) ==
    IF SearchUrlPattern(url).ok THEN SearchUrlPattern(url)
    ELSE IF SearchBarePattern(url).ok THEN SearchBarePattern(url)
    ELSE ValueError

\* lines 158-160, 189-190 (/transcript) and 439-441, 483-484 (/convert): the
\* handler extracts the id from the video_url of the request
ExtractVideoId(url) ==
    /\ video_url' = url
    /\ video_id' = extract_video_id(url)
    /\ UNCHANGED <<cpc, cresp, job, files, cleanup, waited>>
    /\ UNCHANGED <<tvars, svars>>

(***************************************************************************)
(* /convert: convert_to_mp3 on the event loop and download_video_sync on a *)
(* thread of the pool. files[c] are the files under downloads/ that carry  *)
(* the request's unique name: "download" the media file yt-dlp writes to   *)
(* outtmpl, "mp3" the internal_file the postprocessor leaves.              *)
(***************************************************************************)
Convs == {"c1", "c2"}
\* a video_url with an id in it and one without
ConvertURLs == {<<"v", "=">> \o SubSeq(IdSample, 1, IdLength),
                SubSeq(IdSample, 1, IdLength - 1)}
\* the seconds between two looks at the clock
WaitStep == DOWNLOAD_TIMEOUT \div 2

CInit ==
    /\ video_url = <<>>
    /\ video_id = NoId
    /\ cpc = [c \in Convs |-> "idle"]
    /\ cresp = [c \in Convs |-> "none"]
    /\ job = [c \in Convs |-> "none"]
    /\ files = [c \in Convs |-> {}]
    /\ cleanup = [c \in Convs |-> "none"]
    /\ waited = [c \in Convs |-> 0]

Running == {c \in Convs : job[c] = "running"}

\* lines 439-462: the request, up to the await of the download; a ValueError
\* of extract_video_id is answered at lines 483-484
Convert(c, url) ==
    /\ cpc[c] = "idle"
    /\ IF extract_video_id(url).ok
       THEN /\ job' = [job EXCEPT ![c] = "queued"]
            /\ cpc' = [cpc EXCEPT ![c] = "waiting"]
            /\ UNCHANGED cresp
       ELSE /\ cresp' = [cresp EXCEPT ![c] = "invalid id"]
            /\ cpc' = [cpc EXCEPT ![c] = "done"]
            /\ UNCHANGED job
    /\ UNCHANGED <<video_url, video_id, files, cleanup, waited>>
    /\ UNCHANGED <<tvars, svars>>

\* a thread of the pool takes the job
WorkerStart(c) ==
    /\ job[c] = "queued"
    /\ Cardinality(Running) < ConvertWorkers
    /\ job' = [job EXCEPT ![c] = "running"]
    /\ UNCHANGED <<video_url, video_id, cpc, cresp, files, cleanup, waited>>
    /\ UNCHANGED <<tvars, svars>>

\* lines 423-424: ydl.download writes the media file
WorkerDownload(c) ==
    /\ job[c] = "running"
    /\ "download" \notin files[c]
    /\ files' = [files EXCEPT ![c] = @ \cup {"download"}]
    /\ UNCHANGED <<video_url, video_id, cpc, cresp, job, cleanup, waited>>
    /\ UNCHANGED <<tvars, svars>>

\* lines 412-416, 426: FFmpegExtractAudio leaves the mp3 in place of the media
\* file and download_video_sync returns
WorkerConvert(c) ==
    /\ job[c] = "running"
    /\ "download" \in files[c]
    /\ files' = [files EXCEPT ![c] = {"mp3"}]
    /\ job' = [job EXCEPT ![c] = "returned"]
    /\ UNCHANGED <<video_url, video_id, cpc, cresp, cleanup, waited>>
    /\ UNCHANGED <<tvars, svars>>

\* line 426: download_video_sync returns and no file is at internal_file
WorkerReturnNoFile(c) ==
    /\ job[c] = "running"
    /\ job' = [job EXCEPT ![c] = "returned"]
    /\ UNCHANGED <<video_url, video_id, cpc, cresp, files, cleanup, waited>>
    /\ UNCHANGED <<tvars, svars>>

\* lines 423-424: ydl.download raises
WorkerRaise(c) ==
    /\ job[c] = "running"
    /\ job' = [job EXCEPT ![c] = "raised"]
    /\ UNCHANGED <<video_url, video_id, cpc, cresp, files, cleanup, waited>>
    /\ UNCHANGED <<tvars, svars>>

\* time passes for the request awaiting its download
Wait(c) ==
    /\ cpc[c] = "waiting"
    /\ waited[c] < DOWNLOAD_TIMEOUT
    /\ waited' = [waited EXCEPT ![c] = @ + WaitStep]
    /\ UNCHANGED <<video_url, video_id, cpc, cresp, job, files, cleanup>>
    /\ UNCHANGED <<tvars, svars>>

\* the job after the future of run_in_executor is cancelled: a job still in
\* the queue is dropped, a thread that runs the job is not interrupted
CancelJob(j) == IF j = "queued" THEN "cancelled" ELSE j

\* lines 459-465: asyncio.wait_for times out, cancels the future and raises
ConvertTimeout(c) ==
    /\ cpc[c] = "waiting"
    /\ waited[c] >= DOWNLOAD_TIMEOUT
    /\ job[c] \in {"queued", "running"}
    /\ job' = [job EXCEPT ![c] = CancelJob(@)]
    /\ cresp' = [cresp EXCEPT ![c] = "timeout"]
    /\ cpc' = [cpc EXCEPT ![c] = "done"]
    /\ UNCHANGED <<video_url, video_id, files, cleanup, waited>>
    /\ UNCHANGED <<tvars, svars>>

\* lines 459-481, 487-489: the download is over and the handler goes on
ConvertResume(c) ==
    /\ cpc[c] = "waiting"
    /\ job[c] \in {"returned", "raised"}
    /\ IF job[c] = "raised"
       THEN /\ cresp' = [cresp EXCEPT ![c] = "failed"]
            /\ cpc' = [cpc EXCEPT ![c] = "done"]
            /\ UNCHANGED cleanup
       ELSE IF "mp3" \notin files[c]
       THEN /\ cresp' = [cresp EXCEPT ![c] = "not found"]
            /\ cpc' = [cpc EXCEPT ![c] = "done"]
            /\ UNCHANGED cleanup
       ELSE /\ cresp' = [cresp EXCEPT ![c] = "file"]
            /\ cpc' = [cpc EXCEPT ![c] = "sending"]
            /\ cleanup' = [cleanup EXCEPT ![c] = "scheduled"]
    /\ UNCHANGED <<video_url, video_id, job, files, waited>>
    /\ UNCHANGED <<tvars, svars>>

\* lines 381-388, 473: the response is sent and the background task runs
\* cleanup_file(internal_file)
CleanupFile(c) ==
    /\ cpc[c] = "sending"
    /\ cleanup[c] = "scheduled"
    /\ files' = [files EXCEPT ![c] = @ \ {"mp3"}]
    /\ cleanup' = [cleanup EXCEPT ![c] = "done"]
    /\ cpc' = [cpc EXCEPT ![c] = "done"]
    /\ UNCHANGED <<video_url, video_id, cresp, job, waited>>
    /\ UNCHANGED <<tvars, svars>>

CNext ==
    \/ \E c \in Convs, u \in ConvertURLs : Convert(c, u)
    \/ \E c \in Convs : WorkerStart(c)
    \/ \E c \in Convs : WorkerDownload(c)
    \/ \E c \in Convs : WorkerConvert(c)
    \/ \E c \in Convs : WorkerReturnNoFile(c)
    \/ \E c \in Convs : WorkerRaise(c)
    \/ \E c \in Convs : Wait(c)
    \/ \E c \in Convs : ConvertTimeout(c)
    \/ \E c \in Convs : ConvertResume(c)
    \/ \E c \in Convs : CleanupFile(c)

\* requests with every video_url
XNext == \E u \in URLInputs : ExtractVideoId(u)

(***************************************************************************)
(* Specifications.                                                         *)
(***************************************************************************)
vars == <<tvars, svars, cvars>>
Init == TInit /\ SInit /\ CInit
Next ==
    TNext \/ TConcNext \/ SNext \/ PagingNext \/ TraversalNext \/ CNext \/ XNext
Spec == Init /\ [][Next]_vars
SpecTranscript == Init /\ [][TNext]_vars
\* /search does not touch the transcript client: one build is enough
InitSearch == Init /\ has_http_client = TRUE
SpecSearch == InitSearch /\ [][SNext]_vars
SpecPaging == InitSearch /\ [][PagingNext]_vars
SpecTraversal == InitSearch /\ [][TraversalNext]_vars
\* the build whose client has the headers the User-Agent is written to
SpecTranscriptConcurrent == InitSearch /\ [][TConcNext]_vars
SpecConvert == InitSearch /\ [][CNext]_vars
SpecExtract == InitSearch /\ [][XNext]_vars

(***************************************************************************)
(* Claims on the transcript pipeline.                                      *)
(***************************************************************************)
Done(w) == pc[w] = "done"
Ok(w) == pc[w] = "done" /\ result[w].status = "ok"
TransientKinds == {"transient", "No transcript found"}

\* every attempt made so far has failed, each with a transient failure
AllAttemptsFailedTransiently(w) ==
    /\ Len(failures[w]) = attempt[w] + 1
    /\ \A i \in 1..Len(failures[w]) :
          failures[w][i].kind \in TransientKinds /\ failures[w][i].at = i - 1

\* C1: when every attempt fails transiently (max_retries >= 1), the call ends
\* after exactly max_retries list calls, never more at any moment, and raises
\* the failure of the last attempt.
C1_RetryBound ==
    \A w \in Workers :
        /\ max_retries[w] >= 1 => listCalls[w] <= max_retries[w]
        /\ (Done(w) /\ max_retries[w] >= 1 /\ AllAttemptsFailedTransiently(w)) =>
              /\ listCalls[w] = max_retries[w]
              /\ result[w].status = "error"
              /\ result[w].error = failures[w][Len(failures[w])]
              /\ result[w].error.at = max_retries[w] - 1

C1_Witness ==
    /\ Done("w1") /\ max_retries["w1"] = MaxRetriesBound
    /\ AllAttemptsFailedTransiently("w1")
    /\ listCalls["w1"] = MaxRetriesBound
    /\ result["w1"].error.op = "fetch"

DegradedResult(w) ==
    /\ result[w].status = "ok"
    /\ result[w].language = selected[w].lang
    /\ result[w].segments = Segments(selected[w], 0)

\* C2 as stated: once the translation of a fallback track has failed on the
\* first attempt, no further attempt is run and the call ends with the
\* degraded result.
C2_NoRetryAfterTranslationFailure ==
    \A w \in Workers :
        0 \in transFailed[w] =>
            /\ attempt[w] = 0
            /\ Done(w) => DegradedResult(w)

\* C2 amended: once the translation of a fallback track has failed on the
\* first attempt, and unless the fetch of the original track fails on that
\* attempt, no further attempt is run (one list call, no pause) and the call
\* ends with the degraded result; a second attempt is only ever started by a
\* failure of that fetch.
C2_DegradedUnlessFetchFails ==
    \A w \in Workers :
        0 \in transFailed[w] =>
            /\ (\A i \in 1..Len(failures[w]) : failures[w][i].at # 0) =>
                  /\ attempt[w] = 0 /\ listCalls[w] = 1 /\ sleeps[w] = 0
                  /\ Done(w) => DegradedResult(w)
            /\ attempt[w] >= 1 =>
                  failures[w][1].at = 0 /\ failures[w][1].op = "fetch"

C2_Witness ==
    /\ Done("w1") /\ 0 \in transFailed["w1"] /\ DegradedResult("w1")
    /\ max_retries["w1"] = MaxRetriesBound
    /\ selected["w1"].lang = "fr" /\ target_language["w1"] = "es"

Has(tl, lang, gen) == \E i \in 1..Len(tl) : tl[i].lang = lang /\ tl[i].gen = gen

\* the cascade of the claim: (language, generated) in order of preference
CascadeOptions(target) ==
    <<[lang |-> target, gen |-> FALSE], [lang |-> target, gen |-> TRUE],
      [lang |-> "en", gen |-> FALSE], [lang |-> "en", gen |-> TRUE]>>

PickedBy(s, tl, target) ==
    LET opts == CascadeOptions(target)
    IN  \/ \E k \in 1..4 :
              /\ \E i \in 1..Len(tl) : tl[i] = s
              /\ s.lang = opts[k].lang /\ s.gen = opts[k].gen
              /\ \A j \in 1..(k - 1) : ~Has(tl, opts[j].lang, opts[j].gen)
        \/ /\ \A k \in 1..4 : ~Has(tl, opts[k].lang, opts[k].gen)
           /\ Len(tl) > 0
           /\ s = tl[1]
        \/ Len(tl) = 0 /\ s = NoTrack

\* C3: the track an attempt selects from the listed tracks is the first that
\* exists among manual target, generated target, manual en, generated en,
\* else the first listed track; none only when the list is empty.
C3_SelectionCascade ==
    \A w \in Workers :
        PickedBy(selected[w], transcript_list[w], target_language[w])

C3_Witness ==
    /\ pc["w1"] = "translate" /\ target_language["w1"] = "es"
    /\ transcript_list["w1"] = <<[lang |-> "fr", gen |-> FALSE, tr |-> FALSE],
                                 [lang |-> "en", gen |-> TRUE, tr |-> FALSE]>>
    /\ selected["w1"] = [lang |-> "en", gen |-> TRUE, tr |-> FALSE]

\* C4: a selected track in another language than the target is translated
\* before it is fetched; the result's language is the target when the track
\* is in the target language or the translation succeeded, the track's own
\* language when the translation failed, and always the language of the
\* segments returned.
C4_ResultLanguage ==
    \A w \in Workers :
        /\ (pc[w] = "fetch" \/ Ok(w)) =>
              (selected[w].lang # target_language[w] =>
                  (transcript_obj[w].tr \/ attempt[w] \in transFailed[w]))
        /\ Ok(w) =>
              /\ (selected[w].lang = target_language[w] \/ result[w].segments.tr)
                    => result[w].language = target_language[w]
              /\ attempt[w] \in transFailed[w]
                    => result[w].language = selected[w].lang
              /\ result[w].language = result[w].segments.lang

C4_Witness ==
    /\ Ok("w1") /\ target_language["w1"] = "es"
    /\ attempt["w1"] \in transFailed["w1"]
    /\ result["w1"].language = "en"
    /\ result["w1"].segments.lang = "en"

(***************************************************************************)
(* Claims on /search.                                                      *)
(***************************************************************************)
Served == resp.kind = "page" /\ op.kind = "cursor"
LiveKeys(c, t) == {k \in KeysOf(c) : Live(c, k, t)}
ValueOf(c, k) == c[IndexOf(c, k)].value
Encodes(cursor, sid, offset) ==
    cursor.given /\ cursor.sid = sid /\ cursor.fields = <<IntField(offset)>>

\* the videos at positions offset .. offset+limit-1 (counted from 0)
Window(videos, offset, limit) ==
    [i \in 1..Max(0, Min(offset + limit, Len(videos)) - offset) |->
        videos[offset + i]]

\* C5: a page served from a live session, at the offset o of the request and
\* the effective limit l, holds the videos o .. o+l-1 of the cached batch;
\* next_cursor is there iff o + l < len(videos) and is (session, o + l);
\* prev_cursor is there iff o > 0 and is (session, max(0, o - l)).
C5_PageSlice ==
    (resp.kind = "page" /\ op.kind \in {"cursor", "search_done"}) =>
        LET o == IF op.kind = "cursor" THEN op.cursor.fields[1].v ELSE 0
            l == resp.limit
            all == ValueOf(SEARCH_CACHE, op.sid).videos
        IN  /\ Live(SEARCH_CACHE, op.sid, now)
            /\ resp.offset = o
            /\ l \in 1..100
            /\ o >= 0 => resp.videos = Window(all, o, l)
            /\ resp.count = Len(resp.videos)
            /\ resp.next_cursor.given <=> o + l < Len(all)
            /\ resp.next_cursor.given => Encodes(resp.next_cursor, op.sid, o + l)
            /\ resp.prev_cursor.given <=> o > 0
            /\ resp.prev_cursor.given =>
                  Encodes(resp.prev_cursor, op.sid, IF o - l > 0 THEN o - l ELSE 0)

C5_Witness ==
    /\ Served /\ resp.offset = 1 /\ resp.limit = 2
    /\ Len(ValueOf(SEARCH_CACHE, op.sid).videos) = 2
    /\ resp.videos = <<2>>
    /\ Encodes(resp.prev_cursor, op.sid, 0)
    /\ ~resp.next_cursor.given

\* C6: a request whose cursor names a session that is not in the cache
\* (never stored, expired or evicted) gets the "cursor expired" error with no
\* videos, makes no provider call and leaves the cache and the suspended
\* searches as they were.
C6_AbsentSession ==
    [][(op'.kind = "cursor" /\ op'.sid # NoSid
            /\ ~Live(SEARCH_CACHE, op'.sid, now))
        => /\ resp' = HTTPException(CursorExpired)
           /\ resp'.videos = <<>>
           /\ op'.called = <<>>
           /\ SEARCH_CACHE' = SEARCH_CACHE
           /\ pending' = pending]_vars

C6_Witness ==
    /\ op.kind = "cursor" /\ resp.kind = "error" /\ resp.detail = CursorExpired
    /\ op.sid \in KeysOf(SEARCH_CACHE)
    /\ SEARCH_CACHE[IndexOf(SEARCH_CACHE, op.sid)].expires <= now

\* C7: a page is served from a session only while less than 900 s have passed
\* since the session was stored, whatever reads happened in between; from 900 s
\* on the cursor gets the "cursor expired" error.
C7_FixedTTL ==
    op.kind = "cursor" /\ (\E i \in 1..Len(uses) : uses[i].sid = op.sid) =>
        /\ Served => now - CreatedAt(uses, op.sid) < 900
        /\ now - CreatedAt(uses, op.sid) >= 900 =>
              resp = HTTPException(CursorExpired)

\* the session of the request has expired although it was read after the
\* insertion of a session that is still live
C7_Witness ==
    /\ op.kind = "cursor" /\ resp.detail = CursorExpired
    /\ \E i, j \in 1..Len(SEARCH_CACHE) :
          /\ i < j
          /\ SEARCH_CACHE[j].key = op.sid
          /\ SEARCH_CACHE[j].expires <= now
          /\ now < SEARCH_CACHE[i].expires

\* C8: the cache never holds more than maxsize sessions; the insertion of a
\* new session while maxsize unexpired sessions are held evicts exactly one
\* session, the least recently used one, and not the session inserted.
C8_CapacityLRU ==
    /\ [](Len(SEARCH_CACHE) <= maxsize)
    /\ [][(op'.kind = "search_done"
              /\ Cardinality(LiveKeys(SEARCH_CACHE, now)) = maxsize
              /\ op'.sid \notin KeysOf(SEARCH_CACHE))
          => /\ KeysOf(SEARCH_CACHE') =
                    (KeysOf(SEARCH_CACHE) \ {uses[1].sid}) \cup {op'.sid}
             /\ uses[1].sid \in KeysOf(SEARCH_CACHE)
             /\ uses[1].sid # op'.sid
             /\ Cardinality(KeysOf(SEARCH_CACHE) \ KeysOf(SEARCH_CACHE')) = 1
             /\ Len(SEARCH_CACHE') = maxsize]_vars

\* an eviction of the session stored second: the one stored first was read since
C8_Witness ==
    /\ op.kind = "search_done" /\ now = 0
    /\ Cardinality(op.dropped) = 1
    /\ \A k \in op.dropped : k[2] = 1
    /\ \E k \in KeysOf(SEARCH_CACHE) : k[2] = 0

\* C9: the provider's search is called once for every new search, with the
\* query and a batch size of 200, and not at all for a request with a cursor
\* (served or not) or without parameters.
C9_ProviderOncePerSearch ==
    /\ op.kind \in {"search_start", "search_done", "search_failed"} =>
          op.called = <<[query |-> op.sid[1], limit |-> 200]>>
    /\ op.kind \in {"cursor", "bad_request"} => op.called = <<>>
    /\ \A r \in Reqs : pending[r].busy =>
          pending[r].calls = <<[query |-> pending[r].query, limit |-> 200]>>

C9_Witness ==
    /\ op.kind = "search_done" /\ resp.kind = "page"
    /\ op.called = <<[query |-> "qb", limit |-> 200]>>
    /\ Len(SEARCH_CACHE) = maxsize

Clamped(limit) == IF limit < 1 THEN 1 ELSE IF limit > 100 THEN 100 ELSE limit

\* C12: whatever limit a request is sent with, the page it gets reports that
\* limit clamped to 1..100, holds the videos of the window of that size, and
\* carries cursors computed with it.
C12_LimitClamp ==
    (resp.kind = "page" /\ op.kind \in {"cursor", "search_done"}) =>
        LET o == IF op.kind = "cursor" THEN op.cursor.fields[1].v ELSE 0
            L == Clamped(op.limit)
            all == ValueOf(SEARCH_CACHE, op.sid).videos
        IN  /\ resp.limit = L
            /\ resp.limit \in 1..100
            /\ Len(resp.videos) <= L
            /\ o >= 0 => resp.videos = Window(all, o, L)
            /\ resp.next_cursor.given => resp.next_cursor.fields = <<IntField(o + L)>>
            /\ resp.prev_cursor.given =>
                  resp.prev_cursor.fields = <<IntField(IF o > L THEN o - L ELSE 0)>>

\* a page asked for with a negative limit: one video, the next page one further
C12_Witness ==
    /\ resp.kind = "page" /\ op.kind = "search_done" /\ op.limit = -1
    /\ resp.limit = 1 /\ Len(resp.videos) = 1
    /\ resp.next_cursor.given /\ resp.next_cursor.fields = <<IntField(1)>>

\* C13: a request with neither a query nor a cursor (absent or empty) gets
\* the "query or cursor required" error and no videos, makes no provider
\* call, starts no session and leaves the cache and the suspended searches as
\* they were.
C13_NeitherQueryNorCursor ==
    [][op'.kind = "bad_request" =>
          /\ resp'.kind = "error"
          /\ resp'.detail = "Either 'query' or 'cursor' parameter is required"
          /\ resp'.videos = <<>>
          /\ op'.called = <<>>
          /\ SEARCH_CACHE' = SEARCH_CACHE
          /\ pending' = pending
          /\ time_reads' = time_reads]_vars

C13_Witness ==
    /\ op.kind = "bad_request" /\ resp.detail = QueryOrCursorRequired
    /\ Len(SEARCH_CACHE) = 1
    /\ \E r \in Reqs : pending[r].busy

(***************************************************************************)
(* Claims on /convert and extract_video_id.                                *)
(***************************************************************************)
Finished(c) == cpc[c] = "done" /\ job[c] \notin {"queued", "running"}

\* C14: once a conversion has been answered (with the file, the timeout
\* error, the download error or the missing file error) and its download
\* worker has finished, none of the request's files is left under downloads/.
C14_DownloadFileDeleted ==
    \A c \in Convs : Finished(c) => files[c] = {}

\* C15: a conversion whose download is not over after 300 s is answered
\* with the timeout error, and its download is cancelled: no worker of the
\* pool is running it any more.
C15_TimeoutCancelsDownload ==
    \A c \in Convs :
        cresp[c] = "timeout" =>
            /\ waited[c] >= DOWNLOAD_TIMEOUT
            /\ job[c] = "cancelled"
            /\ c \notin Running

\* a supported URL shape: one of v=, /v/, youtu.be/, /embed/ with eleven id
\* characters after it, at position i
ShapeAt(s, i) ==
    \E k \in 1..Len(Markers) :
        LET n == Len(Markers[k])
        IN  /\ i + n + 10 <= Len(s)
            /\ \A j \in 1..n : s[i + j - 1] = Markers[k][j]
            /\ \A j \in 0..10 : s[i + n + j] \in IdChars
EmbeddedAt(s, i) ==
    LET k == CHOOSE x \in 1..Len(Markers) : LiteralAt(s, i, Markers[x])
    IN  SubSeq(s, i + Len(Markers[k]), i + Len(Markers[k]) + 10)
HasUrlShape(s) == \E i \in 1..Len(s) : ShapeAt(s, i)
IsBareId(s) == Len(s) = 11 /\ \A j \in 1..11 : s[j] \in IdChars

\* C16: for a video_url with a supported URL shape in it the id extracted is
\* the one embedded in the first such shape; for a bare string of eleven id
\* characters it is the string itself; for every other video_url the
\* extraction fails.
C16_ExtractVideoId ==
    LET s == video_url
    IN  /\ HasUrlShape(s) =>
              LET i == CHOOSE x \in 1..Len(s) :
                          ShapeAt(s, x) /\ \A y \in 1..(x - 1) : ~ShapeAt(s, y)
              IN  video_id.ok /\ video_id.id = EmbeddedAt(s, i)
        /\ (~HasUrlShape(s) /\ IsBareId(s)) => video_id.ok /\ video_id.id = s
        /\ (~HasUrlShape(s) /\ ~IsBareId(s)) => ~video_id.ok

(***************************************************************************)
(* Further claims on /search.                                              *)
(***************************************************************************)
OffsetIn(cursor) == cursor.fields[1].v
WellFormed(cursor) ==
    Len(cursor.fields) >= 1 /\ cursor.fields[1].int /\ OffsetIn(cursor) >= 0

\* C17: a page is served only at an offset that is a non-negative integer,
\* reports that offset, and carries only cursors with non-negative offsets; a
\* cursor whose offset is negative or not an integer is not served as a page.
C17_NonNegativeOffsets ==
    /\ resp.kind = "page" =>
          /\ resp.offset >= 0
          /\ resp.next_cursor.given => OffsetIn(resp.next_cursor) >= 0
          /\ resp.prev_cursor.given => OffsetIn(resp.prev_cursor) >= 0
    /\ (op.kind = "cursor" /\ ~WellFormed(op.cursor)) => resp.kind = "error"

(***************************************************************************)
(* Further claims on the transcript pipeline.                              *)
(***************************************************************************)
\* C18: a call that succeeds on attempt k, after k-1 transient failures, has
\* listed the tracks k times and paused k-1 times, and returns what attempt k
\* fetched, in attempt k's language; the i-th pause lies between the i-th and
\* the (i+1)-th listing; nothing is called and no pause made after the success.
C18_SuccessOnAttemptK ==
    /\ [](\A w \in Workers :
            /\ Ok(w) =>
                  LET k == attempt[w] + 1
                  IN  /\ k <= max_retries[w]
                      /\ Len(failures[w]) = k - 1
                      /\ \A i \in 1..(k - 1) :
                            /\ failures[w][i].at = i - 1
                            /\ failures[w][i].kind \in TransientKinds
                      /\ listCalls[w] = k
                      /\ sleeps[w] = k - 1
                      /\ result[w].segments = Segments(transcript_obj[w], k - 1)
                      /\ result[w].language = actual_language[w]
            /\ pc[w] \in {"set_ua", "list"} =>
                  listCalls[w] = attempt[w] /\ sleeps[w] = attempt[w]
            /\ pc[w] \in {"translate", "fetch", "sleep"} =>
                  listCalls[w] = attempt[w] + 1 /\ sleeps[w] = attempt[w])
    /\ [][\A w \in Workers :
            (Ok(w) /\ pc'[w] = "done") =>
                /\ listCalls'[w] = listCalls[w]
                /\ sleeps'[w] = sleeps[w]
                /\ result'[w] = result[w]]_vars

C18_Witness ==
    /\ Ok("w1") /\ max_retries["w1"] = 3 /\ attempt["w1"] = 2
    /\ listCalls["w1"] = 3 /\ sleeps["w1"] = 2
    /\ failures["w1"][1].op = "list" /\ failures["w1"][2].op = "fetch"

\* attempt a of the call met a translation-unavailability condition: its
\* translate() failed, or a failure saying "not translatable" reached the
\* retry handler
TranslationUnavailableAt(w, a) ==
    \/ a \in transFailed[w]
    \/ \E i \in 1..Len(failures[w]) :
          failures[w][i].at = a /\ failures[w][i].kind = "not translatable"

\* C19: after a translation-unavailability condition on an attempt there is
\* no pause and no further attempt, and the call ends with the original
\* track's segments and language, not with an error; a call that ends with
\* any other failure has used up its attempts.
C19_TranslationUnavailableExits ==
    \A w \in Workers :
        /\ \A a \in 0..MaxRetriesBound :
              TranslationUnavailableAt(w, a) =>
                  /\ attempt[w] = a
                  /\ sleeps[w] = a
                  /\ Done(w) =>
                        /\ result[w].status = "ok"
                        /\ result[w].language = selected[w].lang
                        /\ result[w].segments = Segments(selected[w], a)
        /\ (Done(w) /\ result[w].status = "error"
                /\ result[w].error.kind \in TransientKinds) =>
              attempt[w] = max_retries[w] - 1

\* w makes a provider call in this step: list, translate or fetch
ProviderCallBy(w) == pc[w] \in {"list", "translate", "fetch"} /\ pc'[w] # pc[w]

\* C20: every provider call of an attempt goes out with the identity chosen
\* for that attempt: the client's User-Agent at the call is the one the attempt
\* selected, which is profile (attempt mod 3) of chrome, firefox, opera or the
\* fallback.
C20_AttemptIdentity ==
    [][\A w \in Workers :
          ProviderCallBy(w) =>
              /\ new_ua[w] \in {browser_types[(attempt[w] % 3) + 1], "random"}
              /\ ua_header = new_ua[w]]_vars

(***************************************************************************)
(* Claims on walks through a session.                                      *)
(***************************************************************************)
RECURSIVE Concat(_)
\* the videos of the pages, one page after the other
Concat(pages) ==
    IF pages = <<>> THEN <<>>
    ELSE Concat(SubSeq(pages, 1, Len(pages) - 1)) \o pages[Len(pages)].videos
\* ceil(n / L), and one page for an empty batch
PagesOf(n, L) == IF n = 0 THEN 1 ELSE (n + L - 1) \div L

\* C21: in a walk that begins at the response to a new search that cached n
\* videos and goes on by next_cursor with one effective limit L (1 <= L <=
\* 100) while the session is live, the pages served so far concatenate to the
\* first min(k * L, n) videos of the batch, in order; the page held has a
\* next_cursor exactly when fewer than ceil(n / L) pages have been served (one
\* page when n = 0), so the walk ends after ceil(n / L) pages with next_cursor
\* null and the whole batch served, every video once.
C21_Traversal ==
    trail.fresh =>
        LET n == Len(trail.batch)
            L == trail.limit
            k == Len(trail.pages)
        IN  /\ L \in MinLimit..MaxLimit
            /\ k \in 1..PagesOf(n, L)
            /\ Concat(trail.pages) = SubSeq(trail.batch, 1, Min(k * L, n))
            /\ LastPage(trail).next_cursor.given <=> k < PagesOf(n, L)
            /\ ~LastPage(trail).next_cursor.given =>
                   Concat(trail.pages) = trail.batch
\* a walk of two pages over three videos has ended
C21_Witness ==
    /\ trail.fresh
    /\ Len(trail.batch) = 3
    /\ Len(trail.pages) = 2
    /\ ~LastPage(trail).next_cursor.given
    /\ op.kind = "cursor"

\* the page after a page at an offset o >= 0 is at o + L, and its prev_cursor
\* is there and encodes o
PrevOfNext(tr) ==
    \A i \in 1..(Len(tr.pages) - 1) :
        tr.pages[i].offset >= 0 =>
            /\ tr.pages[i + 1].offset = tr.pages[i].offset + tr.limit
            /\ Encodes(tr.pages[i + 1].prev_cursor, tr.pages[i].next_cursor.sid,
                       tr.pages[i].offset)

\* C22: for a live session and one effective limit L, when a page at an offset
\* o >= 0 has a next_cursor, the page reached by it (at o + L) has a
\* prev_cursor that encodes o, and the request that sends this prev_cursor is
\* served the original page again.
C22_NextThenPrev ==
    [][/\ PrevOfNext(trail)'
       /\ (/\ Len(trail.pages) >= 2
           /\ trail.pages[Len(trail.pages) - 1].offset >= 0
           /\ op'.kind = "cursor"
           /\ GoesBack(trail, op'.cursor, op'.limit)
           /\ resp'.kind = "page")
          => resp' = trail.pages[Len(trail.pages) - 1]]_vars
\* a walk went from offset 1 to offset 2 and the prev_cursor led back to the
\* page at offset 1
C22_Witness ==
    /\ Len(trail.pages) = 2
    /\ trail.pages[1].offset = 1
    /\ trail.pages[2].offset = 2
    /\ op.kind = "cursor"
    /\ op.cursor = trail.pages[2].prev_cursor
    /\ resp = trail.pages[1]
====
